---- MODULE Spec2Model ----
(***************************************************************************)
(* RouterService (router/router_service.py): a request text is tokenized,  *)
(* turned into the text of a Prolog goal route([...], Decision), run on    *)
(* the rule-engine session held in self.prolog, and the first solution is  *)
(* converted into a routing decision; a failure inside the try block gives *)
(* the fixed fallback decision.                                            *)
(*                                                                         *)
(* A text is a sequence of one-character strings.  The rule file           *)
(* routing_rules.pl is not part of the sources at hand: its rules are      *)
(* taken from the specification (sections 4.2 to 4.6).                     *)
(***************************************************************************)
EXTENDS Integers, Sequences, FiniteSets, TLC

(***************************************************************************)
(* Bounds of the model.                                                    *)
(***************************************************************************)
\* most raw words in a request text of the sequential specification
MaxWords == 2
\* most raw words in a request text of the concurrent specification
MaxConcWords == 1

(***************************************************************************)
(* Characters.                                                             *)
(***************************************************************************)
\* str.lower() on the letters A-Z; every other character is left alone
UpperToLower ==
    [A |-> "a", B |-> "b", C |-> "c", D |-> "d", E |-> "e", F |-> "f",
     G |-> "g", H |-> "h", I |-> "i", J |-> "j", K |-> "k", L |-> "l",
     M |-> "m", N |-> "n", O |-> "o", P |-> "p", Q |-> "q", R |-> "r",
     S |-> "s", T |-> "t", U |-> "u", V |-> "v", W |-> "w", X |-> "x",
     Y |-> "y", Z |-> "z"]

LowerChar(c) ==
    IF c \in DOMAIN UpperToLower THEN UpperToLower[c] ELSE c

\* the characters _tokenize removes: replace(".", ""), replace(",", ""), replace("?", "")
StrippedChars == {".", ",", "?"}

\* the characters str.split() with no argument splits on
WhitespaceChars == {" ", "\t", "\n"}

QuoteChar == "'"

(***************************************************************************)
(* RouterService._tokenize                                                 *)
(***************************************************************************)
RECURSIVE LowerText(_)
LowerText(text) ==
    IF text = <<>> THEN <<>>
    ELSE <<LowerChar(Head(text))>> \o LowerText(Tail(text))

IsKept(c) == c \notin StrippedChars

\* text.lower().replace(".", "").replace(",", "").replace("?", "")
CleanText(text) == SelectSeq(LowerText(text), IsKept)

\* str.split(): the maximal runs of non-whitespace characters, in order
RECURSIVE SplitFrom(_, _, _)
SplitFrom(s, i, cur) ==
    IF i > Len(s)
    THEN IF cur = <<>> THEN <<>> ELSE <<cur>>
    ELSE IF s[i] \in WhitespaceChars
         THEN IF cur = <<>>
              THEN SplitFrom(s, i + 1, <<>>)
              ELSE <<cur>> \o SplitFrom(s, i + 1, <<>>)
         ELSE SplitFrom(s, i + 1, Append(cur, s[i]))

Split(s) == SplitFrom(s, 1, <<>>)

Tokenize(text) == Split(CleanText(text))

(***************************************************************************)
(* The goal text: "[" + ",".join([f"'{t}'" for t in tokens]) + "]" inside  *)
(* f"route({prolog_list_str}, Decision)".  The tokens are not escaped.     *)
(***************************************************************************)
QuotedToken(t) == <<QuoteChar>> \o t \o <<QuoteChar>>

RECURSIVE JoinComma(_)
JoinComma(items) ==
    IF items = <<>> THEN <<>>
    ELSE IF Len(items) = 1 THEN Head(items)
    ELSE Head(items) \o <<",">> \o JoinComma(Tail(items))

QuoteAll(tokens) == [k \in 1..Len(tokens) |-> QuotedToken(tokens[k])]

\* a plausible slip: the last token is lost ("tokens[:-1]")
PrologListStrDropLast(tokens) ==
    <<"[">> \o JoinComma(QuoteAll(SubSeq(tokens, 1, Len(tokens) - 1))) \o <<"]">>

PrologListStr(tokens) == <<"[">> \o JoinComma(QuoteAll(tokens)) \o <<"]">>

RoutePrefix == <<"r", "o", "u", "t", "e", "(">>
RouteSuffix == <<",", " ", "D", "e", "c", "i", "s", "i", "o", "n", ")">>

BuildQuery(prolog_list_str) == RoutePrefix \o prolog_list_str \o RouteSuffix

(***************************************************************************)
(* The rule engine reading the goal text: a list of quoted atoms.  Inside  *)
(* a quoted atom '' stands for one quote; a quote followed by anything but *)
(* "," or "]" after the atom, or an atom that is never closed, is a syntax *)
(* error.  The result is [ok, atoms]; atoms are the atoms as the engine    *)
(* sees them.                                                              *)
(***************************************************************************)
SyntaxError == [ok |-> FALSE, atoms |-> <<>>]

\* s[i] is the character after the opening quote; gives [ok, atom, next]
RECURSIVE ReadQuoted(_, _, _)
ReadQuoted(s, i, acc) ==
    IF i > Len(s) THEN [ok |-> FALSE, atom |-> acc, next |-> i]
    ELSE IF s[i] = QuoteChar
         THEN IF i + 1 <= Len(s) /\ s[i + 1] = QuoteChar
              THEN ReadQuoted(s, i + 2, Append(acc, QuoteChar))
              ELSE [ok |-> TRUE, atom |-> acc, next |-> i + 1]
         ELSE ReadQuoted(s, i + 1, Append(acc, s[i]))

\* s[i] is where an element of the list must start
RECURSIVE ReadElements(_, _, _)
ReadElements(s, i, atoms) ==
    IF i > Len(s) \/ s[i] # QuoteChar THEN SyntaxError
    ELSE LET q == ReadQuoted(s, i + 1, <<>>) IN
         IF ~q.ok \/ q.next > Len(s) THEN SyntaxError
         ELSE IF s[q.next] = ","
              THEN ReadElements(s, q.next + 1, Append(atoms, q.atom))
              ELSE IF s[q.next] = "]" /\ q.next = Len(s)
                   THEN [ok |-> TRUE, atoms |-> Append(atoms, q.atom)]
                   ELSE SyntaxError

ReadList(s) ==
    IF Len(s) < 2 \/ s[1] # "[" THEN SyntaxError
    ELSE IF s[2] = "]"
         THEN IF Len(s) = 2 THEN [ok |-> TRUE, atoms |-> <<>>] ELSE SyntaxError
         ELSE ReadElements(s, 2, <<>>)

\* the goal text is route(<list>, Decision)
ReadQuery(query) ==
    LET n == Len(query)
        p == Len(RoutePrefix)
        x == Len(RouteSuffix)
    IN IF n < p + x THEN SyntaxError
       ELSE IF SubSeq(query, 1, p) # RoutePrefix
               \/ SubSeq(query, n - x + 1, n) # RouteSuffix
            THEN SyntaxError
            ELSE ReadList(SubSeq(query, p + 1, n - x))

(***************************************************************************)
(* The rules of routing_rules.pl, from the specification: the ordered      *)
(* domain rules (4.2), the keyword weights and the stakes thresholds       *)
(* (4.3), the tool triggers (4.4), the model table (4.5) and the           *)
(* validation table (4.6).  A keyword is an atom: a sequence of            *)
(* characters.                                                             *)
(***************************************************************************)
ArchitectureTriggers ==
    {<<"a", "r", "c", "h", "i", "t", "e", "c", "t", "u", "r", "e">>,
     <<"r", "e", "f", "a", "c", "t", "o", "r">>,
     <<"m", "i", "c", "r", "o", "s", "e", "r", "v", "i", "c", "e", "s">>}

ImplementationTriggers ==
    {<<"o", "p", "t", "i", "m", "i", "z", "e">>,
     <<"f", "u", "n", "c", "t", "i", "o", "n">>,
     <<"l", "o", "o", "p">>,
     <<"p", "e", "r", "f", "o", "r", "m", "a", "n", "c", "e">>,
     <<"i", "m", "p", "l", "e", "m", "e", "n", "t", "a", "t", "i", "o", "n">>}

CreativeTriggers ==
    {<<"s", "t", "o", "r", "y">>,
     <<"p", "o", "e", "m">>,
     <<"c", "r", "e", "a", "t", "i", "v", "e">>}

DocumentTriggers ==
    {<<"s", "c", "a", "n">>,
     <<"p", "d", "f">>,
     <<"i", "m", "a", "g", "e">>,
     <<"d", "o", "c", "u", "m", "e", "n", "t">>}

\* the domain rules in authored order
DomainRules ==
    << [domain |-> "coding_architecture", triggers |-> ArchitectureTriggers],
       [domain |-> "coding_implementation", triggers |-> ImplementationTriggers],
       [domain |-> "creative", triggers |-> CreativeTriggers],
       [domain |-> "documents", triggers |-> DocumentTriggers] >>

OcrTriggers ==
    {<<"s", "c", "a", "n">>,
     <<"p", "d", "f">>}

VisionTriggers ==
    {<<"i", "m", "a", "g", "e">>,
     <<"p", "h", "o", "t", "o">>,
     <<"p", "i", "c", "t", "u", "r", "e">>}

EmbeddingsTriggers ==
    {<<"f", "i", "n", "d">>,
     <<"s", "i", "m", "i", "l", "a", "r">>,
     <<"s", "e", "a", "r", "c", "h">>}

\* the tool rules, in the order the tools are listed in a decision
ToolRules ==
    << [tool |-> "ocr", triggers |-> OcrTriggers],
       [tool |-> "vision", triggers |-> VisionTriggers],
       [tool |-> "embeddings", triggers |-> EmbeddingsTriggers] >>

\* the keywords with a weight above 0 ("optimize" weighs 2)
OptimizeKeyword == <<"o", "p", "t", "i", "m", "i", "z", "e">>
OptimizeWeight == 2

\* the weight of one atom; a recognised keyword such as "function" and an
\* unrecognised atom both weigh 0
KeywordWeight(atom) == IF atom = OptimizeKeyword THEN OptimizeWeight ELSE 0

\* the largest score that is still medium: 0 is low, 1..MediumMax medium
MediumMax == 3

Mentions(atoms, triggers) == \E k \in 1..Len(atoms) : atoms[k] \in triggers

\* the sum of the weights, one term per occurrence of an atom
RECURSIVE Score(_)
Score(atoms) ==
    IF atoms = <<>> THEN 0
    ELSE KeywordWeight(Head(atoms)) + Score(Tail(atoms))

\* 0 is low, 1..MediumMax is medium, above it is high
BucketOf(score) ==
    IF score = 0 THEN "low"
    ELSE IF score <= MediumMax THEN "medium" ELSE "high"

\* the architecture override comes before the bucketing
StakesOf(domain, score) ==
    IF domain = "coding_architecture" THEN "high" ELSE BucketOf(score)

ModelOf(domain, stakes) ==
    IF domain = "coding_architecture" /\ stakes = "high" THEN "qwen_coder_32b"
    ELSE IF domain = "coding_implementation" /\ stakes = "medium" THEN "nemotron_30b"
    ELSE IF domain = "creative" /\ stakes = "low" THEN "mythomax_13b"
    ELSE "gpt_oss_20b"

ValidationOf(domain, stakes) ==
    IF domain = "coding_architecture" /\ stakes = "high" THEN "block_by_block"
    ELSE IF domain = "creative" /\ stakes = "low" THEN "none"
    ELSE "end_stage"

\* the tools whose triggers the atoms mention, in the order of ToolRules
ToolsOf(atoms) ==
    LET Fires(rule) == Mentions(atoms, rule.triggers)
        fired == SelectSeq(ToolRules, Fires)
    IN [k \in 1..Len(fired) |-> fired[k].tool]

\* the domains of the rules the atoms trigger, in authored order
MatchingDomains(atoms) ==
    LET Matches(rule) == Mentions(atoms, rule.triggers)
        matched == SelectSeq(DomainRules, Matches)
    IN [k \in 1..Len(matched) |-> matched[k].domain]

\* the Decision term bound for one domain
DecisionFor(domain, atoms) ==
    LET score == Score(atoms)
        stakes == StakesOf(domain, score)
    IN [domain |-> domain,
        stakes |-> stakes,
        model |-> ModelOf(domain, stakes),
        validation |-> ValidationOf(domain, stakes),
        tools |-> ToolsOf(atoms),
        score |-> score]

\* the Decision term of a rule file whose decisions carry no score
WithoutScore(d) == [key \in DOMAIN d \ {"score"} |-> d[key]]

(***************************************************************************)
(* The rule files a RouterService is constructed with (the rules_file      *)
(* parameter of __init__).  "routing_rules" is the repository's file;      *)
(* "partial_rules" is a file with the same rules but no clause for input   *)
(* that no domain rule matches, so that route/2 fails there, and with      *)
(* decisions that have no score key.                                       *)
(***************************************************************************)
DefaultRulesFile == "routing_rules"
PartialRulesFile == "partial_rules"

RulesFiles == {DefaultRulesFile, PartialRulesFile}

\* the solutions of route(Atoms, Decision) in the order the engine yields
\* them: one per matching domain rule, or the unknown decision when none
\* matches
Solutions(rulesFile, atoms) ==
    LET domains == MatchingDomains(atoms)
        all == IF domains = <<>>
               THEN IF rulesFile = PartialRulesFile THEN <<>> ELSE <<"unknown">>
               ELSE domains
    IN [k \in 1..Len(all) |->
          IF rulesFile = PartialRulesFile
          THEN WithoutScore(DecisionFor(all[k], atoms))
          ELSE DecisionFor(all[k], atoms)]

(***************************************************************************)
(* RouterService.route_request, lines 39 to 61, and _fallback_response.    *)
(***************************************************************************)
NoDecisionText == "No routing decision found"
SyntaxErrorText == "syntax_error"
EngineErrorText == "engine_error"
NestedQueryText == "The last query was not closed"
AttributeErrorText == "'NoneType' object has no attribute 'lower'"

\* str(KeyError(key))
KeyErrorText(key) == "'" \o key \o "'"

\* a plausible slip: the fallback names no model
FallbackResponseNoModel(reason) ==
    [domain |-> "unknown",
     stakes |-> "medium",
     model |-> "",
     validation_policy |-> "end_stage",
     tools_required |-> <<"embeddings">>,
     error |-> reason]

\* a plausible slip: the fallback carries a score as the success record does
FallbackResponseWithScore(reason) ==
    [domain |-> "unknown",
     stakes |-> "medium",
     model |-> "gpt_oss_20b",
     validation_policy |-> "end_stage",
     tools_required |-> <<"embeddings">>,
     complexity_score |-> 0,
     error |-> reason]

\* a plausible slip: the fallback names the implementation model
FallbackResponseOtherModel(reason) ==
    [domain |-> "unknown",
     stakes |-> "medium",
     model |-> "nemotron_30b",
     validation_policy |-> "end_stage",
     tools_required |-> <<"embeddings">>,
     error |-> reason]

FallbackResponse(reason) ==
    [domain |-> "unknown",
     stakes |-> "medium",
     model |-> "gpt_oss_20b",
     validation_policy |-> "end_stage",
     tools_required |-> <<"embeddings">>,
     error |-> reason]

\* the keys the dict display reads from the Decision term, in order
DecisionKeys == <<"domain", "stakes", "model", "validation", "tools", "score">>

\* the first key of DecisionKeys the Decision term lacks, or "" when none
RECURSIVE FirstMissing(_, _)
FirstMissing(d, keys) ==
    IF keys = <<>> THEN ""
    ELSE IF Head(keys) \notin DOMAIN d THEN Head(keys)
    ELSE FirstMissing(d, Tail(keys))

\* a plausible slip: the model is read from the validation key
SuccessRecordWrongKey(d) ==
    [domain |-> d.domain,
     stakes |-> d.stakes,
     model |-> d.validation,
     validation_policy |-> d.validation,
     tools_required |-> d.tools,
     complexity_score |-> d.score]

\* the dict display of lines 50 to 57
SuccessRecord(d) ==
    [domain |-> d.domain,
     stakes |-> d.stakes,
     model |-> d.model,
     validation_policy |-> d.validation,
     tools_required |-> d.tools,
     complexity_score |-> d.score]

\* results[0]['Decision']
FirstResult(results) == results[1]

\* the except clause: the reason becomes the error of the fallback
Failed(reason) == [result |-> FallbackResponse(reason), exc |-> reason]

\* lines 43 to 57 on the list of solutions
FormatResults(results) ==
    IF results = <<>>
    THEN [result |-> FallbackResponse(NoDecisionText), exc |-> NoDecisionText]
    ELSE LET d == FirstResult(results)
             missing == FirstMissing(d, DecisionKeys)
         IN IF missing # "" THEN Failed(KeyErrorText(missing))
            ELSE [result |-> SuccessRecord(d), exc |-> "none"]

\* lines 32 to 37
QueryOf(text) == BuildQuery(PrologListStr(Tokenize(text)))

\* what a call on a string gives once its query is run: the record
\* returned and the failure met on the way ("none" when there is none)
RunQuery(rulesFile, text, engineOk) ==
    IF ~engineOk THEN Failed(EngineErrorText)
    ELSE LET read == ReadQuery(QueryOf(text)) IN
         IF ~read.ok THEN Failed(SyntaxErrorText)
         ELSE FormatResults(Solutions(rulesFile, read.atoms))

\* a plausible slip: next(...) instead of list(...) leaves the query open
TakeFirstOnly(open) == open

\* list(...) runs the query generator to its end, which closes the query
DrainQuery(open) == FALSE

(***************************************************************************)
(* Request texts: up to a number of raw words joined by one space.         *)
(***************************************************************************)
RawWords ==
    {<<"R", "e", "f", "a", "c", "t", "o", "r">>,
     <<"o", "p", "t", "i", "m", "i", "z", "e">>,
     <<"p", "o", "e", "m", "?">>,
     <<"P", "d", "f", ",">>,
     <<"f", "i", "n", "d">>,
     <<"s", "k", "y", ".">>,
     <<"d", "o", "n", "'", "t">>}

RECURSIVE JoinSpace(_)
JoinSpace(ws) ==
    IF ws = <<>> THEN <<>>
    ELSE IF Len(ws) = 1 THEN Head(ws)
    ELSE Head(ws) \o <<" ">> \o JoinSpace(Tail(ws))

TextsUpTo(n) ==
    { JoinSpace(ws) : ws \in UNION { [1..k -> RawWords] : k \in 0..n } }

StrInput(text) == [type |-> "str", text |-> text]
NoneInput == [type |-> "NoneType", text |-> <<>>]
NoInput == [type |-> "-", text |-> <<>>]

InputsUpTo(n) == { StrInput(text) : text \in TextsUpTo(n) } \cup {NoneInput}

NoResult == [pending |-> TRUE]
NothingRemembered == [input |-> NoInput, result |-> NoResult]

Threads == {1, 2}
MainThread == 1

(***************************************************************************)
(* State.                                                                  *)
(***************************************************************************)
VARIABLES
    rules,        \* the rule file consulted by __init__
    queryIsOpen,  \* the session's open-query mark, shared by all calls
    pc,           \* per thread: where its call of route_request stands
    input,        \* per thread: user_input of its call
    result,       \* per thread: the record its call returned
    exc,          \* per thread: the failure its call met, "none" if none
    remembered    \* an earlier call's input and returned record

vars == <<rules, queryIsOpen, pc, input, result, exc, remembered>>

Init ==
    /\ rules \in RulesFiles
    /\ queryIsOpen = FALSE
    /\ pc = [t \in Threads |-> "idle"]
    /\ input = [t \in Threads |-> NoInput]
    /\ result = [t \in Threads |-> NoResult]
    /\ exc = [t \in Threads |-> "none"]
    /\ remembered = NothingRemembered

\* route_request is called; line 32 tokenizes outside the try block, so a
\* user_input without lower() raises out of the call
Call(t, inputs) ==
    /\ pc[t] = "idle"
    /\ \E inp \in inputs :
         /\ input' = [input EXCEPT ![t] = inp]
         /\ IF inp.type = "str"
            THEN /\ pc' = [pc EXCEPT ![t] = "tokenized"]
                 /\ exc' = [exc EXCEPT ![t] = "none"]
            ELSE /\ pc' = [pc EXCEPT ![t] = "raised"]
                 /\ exc' = [exc EXCEPT ![t] = AttributeErrorText]
    /\ result' = [result EXCEPT ![t] = NoResult]
    /\ UNCHANGED <<rules, queryIsOpen, remembered>>

\* line 41, self.prolog.query(query): refused when a query is open
OpenQuery(t) ==
    /\ pc[t] = "tokenized"
    /\ IF queryIsOpen
       THEN /\ pc' = [pc EXCEPT ![t] = "done"]
            /\ result' = [result EXCEPT ![t] = Failed(NestedQueryText).result]
            /\ exc' = [exc EXCEPT ![t] = Failed(NestedQueryText).exc]
       ELSE /\ pc' = [pc EXCEPT ![t] = "opened"]
            /\ UNCHANGED <<result, exc>>
    /\ UNCHANGED <<rules, queryIsOpen, input, remembered>>

\* line 41, list(...) starts the generator: the query is marked open
StartQuery(t) ==
    /\ pc[t] = "opened"
    /\ queryIsOpen' = TRUE
    /\ pc' = [pc EXCEPT ![t] = "solving"]
    /\ UNCHANGED <<rules, input, result, exc, remembered>>

\* the session is used by one call at a time; a second call inside it makes
\* the outcome of both undefined
OthersInEngine(t) == \E u \in Threads \ {t} : pc[u] = "solving"

\* line 41 to 61: the solutions are collected, the query is closed, and the
\* record is built or the fallback returned
FinishQuery(t) ==
    /\ pc[t] = "solving"
    /\ \E engineOk \in (IF OthersInEngine(t) THEN BOOLEAN ELSE {TRUE}) :
         \E out \in {RunQuery(rules, input[t].text, engineOk)} :
             /\ result' = [result EXCEPT ![t] = out.result]
             /\ exc' = [exc EXCEPT ![t] = out.exc]
    /\ queryIsOpen' = DrainQuery(queryIsOpen)
    /\ pc' = [pc EXCEPT ![t] = "done"]
    /\ UNCHANGED <<rules, input, remembered>>

\* the caller keeps the input and the record of a call that returned, and
\* goes on
Remember(t) ==
    /\ pc[t] = "done"
    /\ remembered = NothingRemembered
    /\ remembered' = [input |-> input[t], result |-> result[t]]
    /\ pc' = [pc EXCEPT ![t] = "idle"]
    /\ input' = [input EXCEPT ![t] = NoInput]
    /\ result' = [result EXCEPT ![t] = NoResult]
    /\ exc' = [exc EXCEPT ![t] = "none"]
    /\ UNCHANGED <<rules, queryIsOpen>>

\* the caller is done with the call and may call again
Return(t) ==
    /\ pc[t] \in {"done", "raised"}
    /\ pc' = [pc EXCEPT ![t] = "idle"]
    /\ input' = [input EXCEPT ![t] = NoInput]
    /\ result' = [result EXCEPT ![t] = NoResult]
    /\ exc' = [exc EXCEPT ![t] = "none"]
    /\ UNCHANGED <<rules, queryIsOpen, remembered>>

\* one caller, one call after the other
Next ==
    \/ Call(MainThread, InputsUpTo(MaxWords))
    \/ OpenQuery(MainThread)
    \/ StartQuery(MainThread)
    \/ FinishQuery(MainThread)
    \/ Remember(MainThread)
    \/ Return(MainThread)

Spec == Init /\ [][Next]_vars

\* several threads calling on the same RouterService
NextConc ==
    \E t \in Threads :
        \/ Call(t, InputsUpTo(MaxConcWords))
        \/ OpenQuery(t)
        \/ StartQuery(t)
        \/ FinishQuery(t)
        \/ Return(t)

SpecConc == Init /\ [][NextConc]_vars

(***************************************************************************)
(* Properties.                                                             *)
(***************************************************************************)
Returned(t) == pc[t] = "done"
Ended(t) == pc[t] \in {"done", "raised"}
IsFallback(r) == "error" \in DOMAIN r
TokensOf(t) == Tokenize(input[t].text)
Elements(seq) == { seq[k] : k \in 1..Len(seq) }

\* the fallback decision as the specification states it
ConstantFallback(reason) ==
    [domain |-> "unknown", stakes |-> "medium", model |-> "gpt_oss_20b",
     validation_policy |-> "end_stage", tools_required |-> <<"embeddings">>,
     error |-> reason]

\* C1: every call of route_request on a text, the empty text and a text
\* without keywords included, returns a record whose domain, stakes, model
\* and validation_policy are present and not empty, be it a success record
\* or the fallback.
C1_FieldsPopulated ==
    \A t \in Threads :
        (Ended(t) /\ input[t].type = "str") =>
            /\ Returned(t)
            /\ \A key \in {"domain", "stakes", "model", "validation_policy"} :
                   /\ key \in DOMAIN result[t]
                   /\ result[t][key] # ""

\* C1 witness: a call on the empty text has returned a success record after
\* an earlier call returned the fallback.
C1_Witness ==
    /\ Returned(MainThread)
    /\ input[MainThread] = StrInput(<<>>)
    /\ ~IsFallback(result[MainThread])
    /\ remembered # NothingRemembered
    /\ IsFallback(remembered.result)

\* C2: a failure of a request (in tokenization, in building or running the
\* query, in extracting the fields, or no solution) never leaves
\* route_request as an exception: the call returns the fixed fallback with
\* the failure reason as its error.
C2_FailureNeverPropagates ==
    \A t \in Threads :
        (Ended(t) /\ exc[t] # "none") =>
            /\ Returned(t)
            /\ result[t] = ConstantFallback(exc[t])

\* the Decision term the first solution binds for the call of thread t
FirstDecisionOf(t) ==
    Solutions(rules, ReadQuery(QueryOf(input[t].text)).atoms)[1]

\* C3: a returned record is either a success record (domain, stakes, model,
\* validation_policy, tools_required, complexity_score as the rule result
\* gives them, no error) or the constant fallback with an error and no
\* complexity_score; a call that failed returns the fallback, whatever it
\* had extracted.
C3_TwoShapes ==
    \A t \in Threads :
        Returned(t) =>
            \/ /\ exc[t] = "none"
               /\ DOMAIN result[t] =
                      {"domain", "stakes", "model", "validation_policy",
                       "tools_required", "complexity_score"}
               /\ LET d == FirstDecisionOf(t) IN
                      /\ result[t].domain = d.domain
                      /\ result[t].stakes = d.stakes
                      /\ result[t].model = d.model
                      /\ result[t].validation_policy = d.validation
                      /\ result[t].tools_required = d.tools
                      /\ result[t].complexity_score = d.score
            \/ /\ exc[t] # "none"
               /\ result[t] = ConstantFallback(exc[t])
               /\ "complexity_score" \notin DOMAIN result[t]

\* C3 witness: the extraction failed at the score, after domain, stakes,
\* model, validation and tools were read, and the fallback was returned.
C3_Witness ==
    /\ Returned(MainThread)
    /\ exc[MainThread] = KeyErrorText("score")
    /\ Len(MatchingDomains(TokensOf(MainThread))) > 0
    /\ result[MainThread] = ConstantFallback(KeyErrorText("score"))

\* C4: a returned decision with domain coding_architecture has stakes high,
\* model qwen_coder_32b and validation_policy block_by_block, whatever its
\* complexity score.
C4_ArchitectureOverride ==
    \A t \in Threads :
        (Returned(t) /\ result[t].domain = "coding_architecture") =>
            /\ result[t].stakes = "high"
            /\ result[t].model = "qwen_coder_32b"
            /\ result[t].validation_policy = "block_by_block"

\* C4 witness: an architecture decision with score 0 was returned after an
\* architecture decision with a score above 0.
C4_Witness ==
    /\ Returned(MainThread)
    /\ result[MainThread].domain = "coding_architecture"
    /\ result[MainThread].complexity_score = 0
    /\ remembered # NothingRemembered
    /\ ~IsFallback(remembered.result)
    /\ remembered.result.domain = "coding_architecture"
    /\ remembered.result.complexity_score > 0

\* C5: with the repository's rules, every tool one of whose trigger tokens
\* is among the tokens of the input is in tools_required of the returned
\* decision.
C5_ToolsDetected ==
    \A t \in Threads :
        (Returned(t) /\ rules = DefaultRulesFile) =>
            \A k \in 1..Len(ToolRules) :
                Mentions(TokensOf(t), ToolRules[k].triggers) =>
                    ToolRules[k].tool \in Elements(result[t].tools_required)

\* C6: with the repository's rules, the domain of the returned decision is
\* the domain of the first rule in authored order with a trigger among the
\* tokens, and unknown exactly when no rule has one.
C6_FirstMatchingDomain ==
    \A t \in Threads :
        (Returned(t) /\ rules = DefaultRulesFile) =>
            LET hits == { k \in 1..Len(DomainRules) :
                            Mentions(TokensOf(t), DomainRules[k].triggers) }
            IN /\ hits # {} =>
                    \E k \in hits :
                        /\ \A j \in hits : k <= j
                        /\ result[t].domain = DomainRules[k].domain
               /\ (result[t].domain = "unknown") <=> (hits = {})

\* the lookup of the specification, 4.5 and 4.6
TableModel(domain, stakes) ==
    CASE domain = "coding_architecture" /\ stakes = "high" -> "qwen_coder_32b"
      [] domain = "coding_implementation" /\ stakes = "medium" -> "nemotron_30b"
      [] domain = "creative" /\ stakes = "low" -> "mythomax_13b"
      [] OTHER -> "gpt_oss_20b"

TableValidation(domain, stakes) ==
    CASE domain = "coding_architecture" /\ stakes = "high" -> "block_by_block"
      [] domain = "creative" /\ stakes = "low" -> "none"
      [] OTHER -> "end_stage"

\* C7: in every returned decision, the fallback included, model and
\* validation_policy are the values of one fixed lookup on (domain, stakes),
\* so two decisions with the same domain and stakes have the same model and
\* validation_policy.
C7_LookupTable ==
    \A t \in Threads :
        Returned(t) =>
            /\ result[t].model = TableModel(result[t].domain, result[t].stakes)
            /\ result[t].validation_policy =
                   TableValidation(result[t].domain, result[t].stakes)
            /\ (/\ remembered # NothingRemembered
                /\ remembered.result.domain = result[t].domain
                /\ remembered.result.stakes = result[t].stakes) =>
                   /\ remembered.result.model = result[t].model
                   /\ remembered.result.validation_policy =
                          result[t].validation_policy

\* C7 witness: the fallback was returned after a success record for
\* (coding_implementation, medium) with model nemotron_30b.
C7_Witness ==
    /\ Returned(MainThread)
    /\ IsFallback(result[MainThread])
    /\ remembered # NothingRemembered
    /\ remembered.result.domain = "coding_implementation"
    /\ remembered.result.stakes = "medium"
    /\ remembered.result.model = "nemotron_30b"

\* C8: a call of route_request returns the record an earlier call on the
\* same RouterService returned for the same text, whatever calls were made
\* in between.
C8_Determinism ==
    \A t \in Threads :
        (Returned(t) /\ remembered.input = input[t]) =>
            result[t] = remembered.result

\* C8 witness: a text routed by an earlier call, which returned a success
\* record with a tool and a score, was routed again and the call returned.
C8_Witness ==
    /\ Returned(MainThread)
    /\ remembered.input = input[MainThread]
    /\ ~IsFallback(result[MainThread])
    /\ result[MainThread].complexity_score > 0
    /\ result[MainThread].tools_required # <<>>

\* C9: calls of route_request that run interleaved on one RouterService
\* each return the decision they return when run alone.
C9_SameAsAlone ==
    \A t \in Threads :
        Returned(t) =>
            result[t] = RunQuery(rules, input[t].text, TRUE).result

\* C10: the complexity_score of a success record is a non-negative integer,
\* the sum of the keyword weights over the token occurrences of the input;
\* when the domain is not coding_architecture the stakes follows from the
\* score alone, 0 giving low and 2 giving medium.
C10_ScoreAndStakes ==
    \A t \in Threads :
        (Returned(t) /\ ~IsFallback(result[t])) =>
            LET score == result[t].complexity_score IN
            /\ score \in Nat
            /\ score = Score(TokensOf(t))
            /\ result[t].domain # "coding_architecture" =>
                   /\ result[t].stakes = BucketOf(score)
                   /\ score = 0 => result[t].stakes = "low"
                   /\ score = 2 => result[t].stakes = "medium"

\* C10 witness: "optimize" occurs twice in the input and is counted twice.
C10_Witness ==
    /\ Returned(MainThread)
    /\ ~IsFallback(result[MainThread])
    /\ TokensOf(MainThread) = <<OptimizeKeyword, OptimizeKeyword>>
    /\ result[MainThread].complexity_score = 2 * OptimizeWeight
    /\ result[MainThread].stakes = "high"

====
